---- MODULE Spec2Model ----
(***************************************************************************)
(* Quota enforcement of the GreaseMonkey AI backend: PricingService       *)
(* (get_user_tier, check_usage_limit, track_usage, set_tier_override) of  *)
(* backend/services.py and the /ask and /documents/upload handlers of     *)
(* backend/routes.py, over the Supabase tables they read and write.       *)
(* One user is modelled: every query of the code filters on user_id, so   *)
(* the rows of other users never reach it.                                *)
(***************************************************************************)
EXTENDS Integers, Sequences, FiniteSets, Bags, TLC

(* ------------------------------ bounds -------------------------------- *)
\* number of HTTP requests in flight in one behaviour
NumRequests == 2
\* last hour of the modelled clock (datetime.now())
MaxTime == 2
\* tier_overrides rows a behaviour may insert
MaxOverrides == 2
\* days a behaviour of the request handlers spans
MaxDays == 2
\* chunks a vector-store collection holds
MaxHits == 2
\* calendar: months and days per month of the modelled dates
NumMonths == 2
DaysPerMonth == 2

(* --------------------------- program constants ------------------------ *)
\* Optional[int] = None
None == -1
\* an Optional[str] that is None
Absent == "<None>"
FREE_TIER == "free_tier"
WEEKEND_WARRIOR == "weekend_warrior"
MASTER_TECH == "master_tech"
UserTier == {FREE_TIER, WEEKEND_WARRIOR, MASTER_TECH}

ASK_QUERY == "ask_query"
DOCUMENT_UPLOAD == "document_upload"
DOCUMENT_SEARCH == "document_search"
TTS_REQUEST == "tts_request"
STT_REQUEST == "stt_request"
UsageType == {ASK_QUERY, DOCUMENT_UPLOAD, DOCUMENT_SEARCH, TTS_REQUEST, STT_REQUEST}

\* int(os.getenv("MAX_DOCUMENT_SIZE_MB", "50")), int(os.getenv("MAX_STORAGE_PAID_MB", "1000"))
MAX_DOCUMENT_SIZE_MB == 50
MAX_STORAGE_PAID_MB == 1000

\* TierLimits(...) of each tier; fields not given keep the class defaults
TIER_CONFIGS ==
  [t \in UserTier |->
     CASE t = FREE_TIER ->
            [max_daily_asks |-> 3, max_monthly_asks |-> None,
             max_document_uploads |-> 0, max_vehicles |-> 1,
             max_storage_mb |-> 0,
             document_upload_enabled |-> FALSE,
             tts_enabled |-> TRUE, stt_enabled |-> TRUE]
       [] t = WEEKEND_WARRIOR ->
            [max_daily_asks |-> None, max_monthly_asks |-> 50,
             max_document_uploads |-> 20, max_vehicles |-> None,
             max_storage_mb |-> MAX_STORAGE_PAID_MB,
             document_upload_enabled |-> TRUE,
             tts_enabled |-> TRUE, stt_enabled |-> TRUE]
       [] t = MASTER_TECH ->
            [max_daily_asks |-> None, max_monthly_asks |-> 200,
             max_document_uploads |-> None, max_vehicles |-> None,
             max_storage_mb |-> None,
             document_upload_enabled |-> TRUE,
             tts_enabled |-> TRUE, stt_enabled |-> TRUE]]

\* timedelta(hours=24), the default life of an override
OVERRIDE_HOURS == 24

(* ------------------------------- state -------------------------------- *)
VARIABLES
  supabase,            \* TRUE iff the Supabase client was created at import
  now,                 \* datetime.now(), in hours
  today,               \* date.today(), a record [ym, d]
  tier_overrides,      \* rows of table tier_overrides, in insertion order
  users,               \* rows of table users for the user
  daily_usage_stats,   \* rows of table daily_usage_stats; a row's id is its index
  monthly_usage_stats, \* rows of table monthly_usage_stats
  usage_records,       \* rows of table usage_records, a bag: the rows have no order
  documents,           \* number of rows of table documents owned by the user
  req,                 \* per request: position in the handler and its locals
  search,              \* the DocumentManager or gate call under way: arguments,
                       \* result and the vector store collections it works on
  http                 \* API_KEY and the x-api-key header of each request

vars == <<supabase, now, today, tier_overrides, users, daily_usage_stats,
          monthly_usage_stats, usage_records, documents, req, search, http>>

\* no DocumentManager call is under way
NoSearch == [pc |-> "none"]

Procs == 1..NumRequests

\* API_KEY is not set and the requests carry no x-api-key header
NoHttp == [API_KEY |-> Absent, x_api_key |-> [p \in Procs |-> Absent]]
Dates == [ym : 1..NumMonths, d : 1..DaysPerMonth]

\* the .execute() calls of PricingService, each of which may raise
StoreCalls == {"tier_overrides.select", "users.select", "users.insert",
               "daily_usage_stats.select", "monthly_usage_stats.select",
               "daily_usage_stats.like", "documents.count",
               "usage_records.insert", "daily_usage_stats.update",
               "daily_usage_stats.insert", "tier_overrides.insert"}

(* --------------------------- get_user_tier ---------------------------- *)
\* .gte("expires_at", datetime.now().isoformat())
OverrideSelected(row, t) == row.expires_at >= t

\* the rows the override query returns, in table order
ActiveOverrides == SelectSeq(tier_overrides, LAMBDA row : OverrideSelected(row, now))

\* the first row of the query result, whatever its created_at
FirstReturned(rows) == rows[1]

\* sorted(data, key=lambda x: x['created_at'])[-1]: the sort is stable, so
\* among rows of equal created_at the last one of the query result is taken
MostRecent(rows) ==
  rows[CHOOSE i \in 1..Len(rows) :
         \A j \in 1..Len(rows) :
            \/ rows[j].created_at < rows[i].created_at
            \/ (rows[j].created_at = rows[i].created_at /\ j <= i)]

\* the store calls get_user_tier makes, given the calls that raise
TierCalls(fail) ==
  IF ~supabase THEN {}
  ELSE IF "tier_overrides.select" \in fail \/ ActiveOverrides /= <<>>
       THEN {"tier_overrides.select"}
  ELSE IF "users.select" \in fail \/ users /= <<>>
       THEN {"tier_overrides.select", "users.select"}
  ELSE {"tier_overrides.select", "users.select", "users.insert"}

\* a resolution that reads what it can and skips the calls that raise
get_user_tier_unguarded(fail) ==
  IF ~supabase THEN FREE_TIER
  ELSE IF ActiveOverrides /= <<>> /\ "tier_overrides.select" \notin fail
       THEN MostRecent(ActiveOverrides).override_tier
  ELSE IF users /= <<>> THEN users[1].tier
  ELSE FREE_TIER

\* the value get_user_tier returns; any exception gives FREE_TIER
get_user_tier(fail) ==
  IF ~supabase THEN FREE_TIER
  ELSE IF TierCalls(fail) \cap fail /= {} THEN FREE_TIER
  ELSE IF ActiveOverrides /= <<>> THEN MostRecent(ActiveOverrides).override_tier
  ELSE IF users /= <<>> THEN users[1].tier
  ELSE FREE_TIER

\* a resolution that never writes to table users
UsersUntouched(fail) == users

\* table users after get_user_tier: a row is inserted when none was found
UsersAfterGetTier(fail) ==
  IF "users.insert" \in TierCalls(fail) /\ "users.insert" \notin fail
  THEN Append(users, [tier |-> FREE_TIER])
  ELSE users

get_tier_limits(tier) == TIER_CONFIGS[tier]

(* ------------------------- usage statistics --------------------------- *)
\* the daily_usage_stats / monthly_usage_stats column counting a usage type
Column(usage_type) ==
  CASE usage_type = ASK_QUERY -> "ask_queries"
    [] usage_type = DOCUMENT_UPLOAD -> "document_uploads"
    [] usage_type = DOCUMENT_SEARCH -> "document_searches"
    [] usage_type = TTS_REQUEST -> "tts_requests"
    [] usage_type = STT_REQUEST -> "stt_requests"

Columns == {Column(t) : t \in UsageType}

\* .select("*").eq("user_id", user_id).eq("date", today): ids of the rows, in order
DailyRowIds(date) ==
  SelectSeq([i \in 1..Len(daily_usage_stats) |-> i],
            LAMBDA i : daily_usage_stats[i].date = date)

\* .like("date", f"{year}-{month}-%"): the rows of one month
MonthRowIds(ym) ==
  SelectSeq([i \in 1..Len(daily_usage_stats) |-> i],
            LAMBDA i : daily_usage_stats[i].date.ym = ym)

\* sum(day.get(column, 0) for day in daily_stats.data)
RECURSIVE SumColumn(_, _)
SumColumn(ids, column) ==
  IF ids = <<>> THEN 0
  ELSE daily_usage_stats[Head(ids)][column] + SumColumn(Tail(ids), column)

MonthlyRows(ym) == SelectSeq(monthly_usage_stats, LAMBDA row : row.year_month = ym)

\* MonthlyUsageStats(user_id=..., year_month=...) with the class defaults
EmptyMonthlyUsage == [c \in Columns |-> 0]

\* the MonthlyUsageStats _get_monthly_usage returns
_get_monthly_usage(year_month, fail) ==
  IF "monthly_usage_stats.select" \in fail THEN EmptyMonthlyUsage
  ELSE IF MonthlyRows(year_month) /= <<>>
       THEN [c \in Columns |-> MonthlyRows(year_month)[1][c]]
  ELSE IF "daily_usage_stats.like" \in fail THEN EmptyMonthlyUsage
  ELSE [c \in Columns |-> SumColumn(MonthRowIds(year_month), c)]

\* the store calls _get_monthly_usage makes
MonthlyCalls(year_month, fail) ==
  IF "monthly_usage_stats.select" \in fail \/ MonthlyRows(year_month) /= <<>>
  THEN {"monthly_usage_stats.select"}
  ELSE {"monthly_usage_stats.select", "daily_usage_stats.like"}

\* result.count or 0; 0 when the query raises
_get_total_document_count(fail) ==
  IF "documents.count" \in fail THEN 0 ELSE documents

(* ------------------------- check_usage_limit -------------------------- *)
\* a reason: the fixed words of the f-string and the used/limit pair it
\* interpolates (<<>> when the message interpolates no numbers)
OK == [text |-> "OK", pair |-> <<>>]
Allow == [allowed |-> TRUE, reason |-> OK]
\* a denial whose message interpolates no numbers
DenyWithoutNumbers(text, pair) == [allowed |-> FALSE, reason |-> [text |-> text, pair |-> <<>>]]
Deny(text, pair) == [allowed |-> FALSE, reason |-> [text |-> text, pair |-> pair]]

\* a comparison that denies only once the ceiling has been passed
LimitPassed(used, max) == used > max

\* used_asks >= max_asks, used_asks >= max_monthly_asks, total_docs >= max_uploads
LimitReached(used, max) == used >= max

\* the daily-limit branch taken when tier == UserTier.FREE_TIER
FreeAskCheck(tier_limits) ==
  LET ids == DailyRowIds(today)
      used_asks == IF ids /= <<>> THEN daily_usage_stats[ids[1]].ask_queries ELSE 0
      max_asks == tier_limits.max_daily_asks
  IN IF max_asks /= None /\ LimitReached(used_asks, max_asks)
     THEN Deny("Daily limit reached", <<used_asks, max_asks>>)
     ELSE Allow

\* the monthly-limit branch taken when tier == UserTier.WEEKEND_WARRIOR
MonthlyAskCheck(tier_limits, fail) ==
  LET max_monthly_asks == tier_limits.max_monthly_asks
      used_asks == _get_monthly_usage(today.ym, fail).ask_queries
  IN IF max_monthly_asks /= None /\ LimitReached(used_asks, max_monthly_asks)
     THEN Deny("Monthly limit reached", <<used_asks, max_monthly_asks>>)
     ELSE Allow

\* an upload branch that denies the Weekend Warrior tier only
PaidUploadCheck(tier, tier_limits, fail) ==
  LET max_uploads == tier_limits.max_document_uploads
      total_docs == _get_total_document_count(fail)
  IN IF max_uploads /= None /\ LimitReached(total_docs, max_uploads)
        /\ tier = WEEKEND_WARRIOR
     THEN Deny("Document upload limit reached", <<total_docs, max_uploads>>)
     ELSE Allow

\* the document-upload branch, taken for every tier that reaches it
UploadCheck(tier, tier_limits, fail) ==
  LET max_uploads == tier_limits.max_document_uploads
      total_docs == _get_total_document_count(fail)
  IN IF max_uploads /= None /\ LimitReached(total_docs, max_uploads)
     THEN IF tier = FREE_TIER
          THEN Deny("Document upload limit reached", <<>>)
          ELSE IF tier = WEEKEND_WARRIOR
          THEN Deny("Document upload limit reached", <<total_docs, max_uploads>>)
          ELSE Allow
     ELSE Allow

\* the tier for which check_usage_limit returns before reading any limit
NoLimitsTier(tier) == tier = MASTER_TECH

\* lines 953-1003 of check_usage_limit: what it returns once get_user_tier
\* has resolved the tier
CheckForTier(tier, usage_type, fail) ==
  LET tier_limits == get_tier_limits(tier)
  IN IF ~supabase THEN Allow
     ELSE IF NoLimitsTier(tier) THEN Allow
     ELSE IF tier = FREE_TIER /\ "daily_usage_stats.select" \in fail
          THEN Allow    \* except Exception: return True, "OK"
     ELSE LET asks == IF usage_type /= ASK_QUERY THEN Allow
                      ELSE IF tier = FREE_TIER THEN FreeAskCheck(tier_limits)
                      ELSE MonthlyAskCheck(tier_limits, fail)
          IN IF ~asks.allowed THEN asks
             ELSE IF usage_type = DOCUMENT_UPLOAD
                  THEN UploadCheck(tier, tier_limits, fail)
                  ELSE Allow

\* (allowed, reason) of check_usage_limit(user_id, usage_type), given the
\* store calls that raise during the evaluation
check_usage_limit(usage_type, fail) ==
  CheckForTier(get_user_tier(fail), usage_type, fail)

\* the store calls check_usage_limit makes
CheckCalls(usage_type, fail) ==
  LET tier == get_user_tier(fail)
      tier_limits == get_tier_limits(tier)
  IN IF ~supabase THEN {}
     ELSE TierCalls(fail) \cup
       (IF NoLimitsTier(tier) THEN {}
        ELSE IF tier = FREE_TIER /\ "daily_usage_stats.select" \in fail
             THEN {"daily_usage_stats.select"}
        ELSE (IF tier = FREE_TIER THEN {"daily_usage_stats.select"} ELSE {})
             \cup (IF tier = WEEKEND_WARRIOR /\ usage_type = ASK_QUERY
                      /\ tier_limits.max_monthly_asks /= None
                   THEN MonthlyCalls(today.ym, fail) ELSE {})
             \cup (IF usage_type = DOCUMENT_UPLOAD
                      /\ tier_limits.max_document_uploads /= None
                   THEN {"documents.count"} ELSE {}))
(* ------------------------------ requests ------------------------------ *)
\* a request that has not arrived yet, and the locals of one that has;
\* logged_error tells whether logger.error was called while serving it, and
\* calls are the store calls a direct call of get_user_tier made
NoStats == [id |-> 0, date |-> [ym |-> 0, d |-> 0], row |-> [c \in Columns |-> 0]]
Idle == [pc |-> "idle", usage_type |-> ASK_QUERY, allowed |-> FALSE, reason |-> OK,
         tier |-> FREE_TIER, failed |-> {}, stats |-> NoStats, logged_error |-> FALSE,
         calls |-> {}]

\* a new daily_usage_stats row: 1 in the column of usage_type, 0 elsewhere
NewStats(date, usage_type) ==
  [c \in Columns \cup {"date"} |->
     IF c = "date" THEN date ELSE IF c = Column(usage_type) THEN 1 ELSE 0]

\* stats[column] += 1 on the row that was read
Incremented(row, usage_type) ==
  [row EXCEPT ![Column(usage_type)] = @ + 1]

\* the store calls that can be made during check_usage_limit
CheckStoreCalls == {"tier_overrides.select", "users.select", "users.insert",
                    "daily_usage_stats.select", "monthly_usage_stats.select",
                    "daily_usage_stats.like", "documents.count"}

\* the direct call check_usage_limit(user_id, usage_type), as made by the
\* /stt, /tts and /usage handlers: the result is kept in the caller's locals
CheckUsageLimit(p, usage_type) ==
  /\ req[p].pc = "idle"
  /\ \E fail \in SUBSET CheckStoreCalls :
       LET r == check_usage_limit(usage_type, fail)
       IN /\ req' = [req EXCEPT ![p] =
                       [@ EXCEPT !.pc = "checked", !.usage_type = usage_type,
                                 !.allowed = r.allowed, !.reason = r.reason,
                                 !.tier = get_user_tier(fail),
                                 !.failed = fail \cap CheckCalls(usage_type, fail),
                                 !.logged_error =
                                    fail \cap CheckCalls(usage_type, fail) /= {}]]
          /\ users' = IF supabase THEN UsersAfterGetTier(fail) ELSE users
  /\ UNCHANGED <<http, search, supabase, now, today, tier_overrides, daily_usage_stats,
                 monthly_usage_stats, usage_records, documents>>

\* the usage type an endpoint checks and records
RouteUsage(route) ==
  CASE route = "/ask" -> ASK_QUERY
    [] route = "/stt" -> STT_REQUEST
    [] route = "/tts" -> TTS_REQUEST
    [] OTHER -> DOCUMENT_UPLOAD
Routes == {"/ask", "/documents/upload"}

\* a handler that goes on whatever check_usage_limit returned
GoOn(allowed) == "handling"

\* where a handler goes after check_usage_limit: on a denial it raises
\* HTTPException (429 for /ask, 403 for /documents/upload) and ends
AfterCheck(allowed) == IF allowed THEN "handling" ELSE "denied"

\* ask() lines 28-31 and upload_document() lines 85-88: the usage check; the
\* handler keeps the pair (can_ask, limit_message) it returns.  fail is the
\* set of the calls made that raise
RouteCheck(p, route) ==
  /\ req[p].pc = "idle"
  /\ \E fail \in SUBSET CheckStoreCalls :
       LET r == check_usage_limit(RouteUsage(route), fail)
       IN /\ fail \subseteq CheckCalls(RouteUsage(route), fail)
          /\ req' = [req EXCEPT ![p] =
                       [@ EXCEPT !.pc = AfterCheck(r.allowed),
                                 !.usage_type = RouteUsage(route),
                                 !.allowed = r.allowed, !.reason = r.reason,
                                 !.logged_error =
                                    fail \cap CheckCalls(RouteUsage(route), fail) /= {}]]
          /\ users' = IF supabase THEN UsersAfterGetTier(fail) ELSE users
  /\ UNCHANGED <<http, search, supabase, now, today, tier_overrides, daily_usage_stats,
                 monthly_usage_stats, usage_records, documents>>

\* log_query: the queries insert fails on its foreign key when the user has
\* no users row; the user is then created with the default tier
UsersAfterLogQuery(insert_fails) ==
  IF supabase /\ users = <<>> /\ ~insert_fails
  THEN Append(users, [tier |-> FREE_TIER]) ELSE users

\* ask() lines 33-48: retrieval, the LLM call, TTS and log_query; an
\* exception of the LLM call becomes HTTP 500
Answer(p) ==
  /\ req[p].pc = "handling"
  /\ req[p].usage_type = ASK_QUERY
  /\ \/ /\ req' = [req EXCEPT ![p].pc = "failed"]
        /\ users' = users
     \/ /\ req' = [req EXCEPT ![p].pc = "tracking"]
        /\ \E insert_fails \in BOOLEAN : users' = UsersAfterLogQuery(insert_fails)
  /\ UNCHANGED <<http, search, supabase, now, today, tier_overrides, daily_usage_stats,
                 monthly_usage_stats, usage_records, documents>>

(* ----------------------------- upload gate ---------------------------- *)
\* the .execute() calls of can_user_upload_document, each of which may raise
GateStoreCalls == {"users.select", "documents.select"}
\* file sizes and stored totals in MB, around the ceilings
FileSizes == {0, 1, MAX_DOCUMENT_SIZE_MB}
StoredSizes == {0, MAX_STORAGE_PAID_MB - 1, MAX_STORAGE_PAID_MB}

\* get_user_storage_usage: the stored total, or 0.0 when the query raises
get_user_storage_usage(stored_mb, fail) ==
  IF "documents.select" \in fail THEN 0 ELSE stored_mb

\* current_usage + file_size_mb > max_storage raises TypeError when
\* max_storage is None
ComparisonRaises(max_storage) == max_storage = None

\* a refusal or permission of can_user_upload_document; its messages
\* interpolate no pair that the model keeps
Gate(allowed, text) == [allowed |-> allowed, reason |-> [text |-> text, pair |-> <<>>]]

\* can_user_upload_document(user_id, file_size_mb), given the stored total of
\* the user and the store calls that raise
can_user_upload_document(file_size_mb, stored_mb, fail) ==
  IF ~supabase THEN Gate(FALSE, "Database not available")
  ELSE IF "users.select" \in fail THEN Gate(FALSE, "Error checking permissions")
  ELSE IF users = <<>> THEN Gate(FALSE, "User not found")
  ELSE LET user_tier == users[1].tier
           current_usage == get_user_storage_usage(stored_mb, fail)
           max_storage == TIER_CONFIGS[user_tier].max_storage_mb
       IN IF user_tier = FREE_TIER
          THEN Gate(FALSE, "Document uploads require a paid plan")
          ELSE IF ComparisonRaises(max_storage)
          THEN Gate(FALSE, "Error checking permissions")
          ELSE IF current_usage + file_size_mb > max_storage
          THEN Gate(FALSE, "Storage limit exceeded")
          ELSE Gate(TRUE, "Upload allowed")

\* the store calls can_user_upload_document makes
GateCalls(fail) ==
  IF ~supabase THEN {}
  ELSE IF "users.select" \in fail \/ users = <<>> THEN {"users.select"}
  ELSE IF users[1].tier = FREE_TIER THEN {"users.select"}
  ELSE GateStoreCalls

\* check_vehicle_limit(user_id, current_vehicle_count)
check_vehicle_limit(current_vehicle_count, fail) ==
  LET tier == get_user_tier(fail)
      tier_limits == get_tier_limits(tier)
  IN IF tier_limits.max_vehicles /= None
        /\ current_vehicle_count >= tier_limits.max_vehicles
     THEN Deny("Vehicle limit reached", <<current_vehicle_count, tier_limits.max_vehicles>>)
     ELSE Allow

\* one call of can_user_upload_document
CanUserUploadDocument ==
  /\ search.pc = "gating"
  /\ \E fail \in SUBSET GateStoreCalls :
       /\ fail \subseteq GateCalls(fail)
       /\ LET r == can_user_upload_document(search.file_size_mb, search.stored_mb, fail)
          IN search' = [search EXCEPT !.pc = "gated", !.allowed = r.allowed,
                                      !.reason = r.reason, !.failed = fail]
  /\ UNCHANGED <<http, supabase, now, today, tier_overrides, users, daily_usage_stats,
                 monthly_usage_stats, usage_records, documents, req>>

\* one call of check_vehicle_limit; get_user_tier may create the users row
CheckVehicleLimit ==
  /\ search.pc = "vehicles"
  /\ \E fail \in SUBSET {"tier_overrides.select", "users.select", "users.insert"} :
       /\ fail \subseteq TierCalls(fail)
       /\ LET r == check_vehicle_limit(search.current_vehicle_count, fail)
          IN search' = [search EXCEPT !.pc = "counted", !.allowed = r.allowed,
                                      !.reason = r.reason, !.failed = fail,
                                      !.tier = get_user_tier(fail)]
       /\ users' = IF supabase THEN UsersAfterGetTier(fail) ELSE users
  /\ UNCHANGED <<http, supabase, now, today, tier_overrides, daily_usage_stats,
                 monthly_usage_stats, usage_records, documents, req>>

\* upload_document lines 402-405: the upload goes on only when
\* can_user_upload_document permits it for the size and the stored total
UploadPermitted ==
  \E file_size_mb \in FileSizes, stored_mb \in StoredSizes :
     can_user_upload_document(file_size_mb, stored_mb, {}).allowed

\* upload_document() lines 90-124: validation and DocumentManager.upload_document,
\* which raises, with or without a documents row left behind, or returns
Upload(p) ==
  /\ req[p].pc = "handling"
  /\ req[p].usage_type = DOCUMENT_UPLOAD
  /\ \/ /\ req' = [req EXCEPT ![p].pc = "failed"]
        /\ documents' = documents
     \/ /\ UploadPermitted
        /\ req' = [req EXCEPT ![p].pc = "failed"]
        /\ documents' = documents + 1
     \/ /\ UploadPermitted
        /\ req' = [req EXCEPT ![p].pc = "tracking"]
        /\ documents' = documents + 1
  /\ UNCHANGED <<http, search, supabase, now, today, tier_overrides, users, daily_usage_stats,
                 monthly_usage_stats, usage_records>>

\* a handler that turns a False from track_usage into a failure of the request
SurfaceTrackingFailure(tracked) == IF tracked THEN "done" ELSE "failed"

\* where a handler goes after track_usage returned: it ignores the value
\* returned, logs the success and returns its response
AfterTracking(tracked) == "done"

\* track_usage lines 817-836: without a store it returns at once; otherwise
\* it resolves the tier and inserts the usage_records row, and any exception
\* makes it return False
TrackUsage(p) ==
  /\ req[p].pc = "tracking"
  /\ IF ~supabase
     THEN /\ req' = [req EXCEPT ![p].pc = AfterTracking(TRUE)]
          /\ UNCHANGED <<http, search, users, usage_records>>
     ELSE \E fail \in SUBSET {"tier_overrides.select", "users.select", "users.insert",
                              "usage_records.insert"} :
            /\ fail \subseteq TierCalls(fail) \cup {"usage_records.insert"}
            /\ users' = UsersAfterGetTier(fail)
            /\ IF "usage_records.insert" \in fail
               THEN /\ req' = [req EXCEPT ![p].pc = AfterTracking(FALSE),
                                              ![p].logged_error = TRUE]
                    /\ usage_records' = usage_records
               ELSE /\ req' = [req EXCEPT ![p].pc = "stats_read",
                                  ![p].logged_error = @ \/ (fail \cap TierCalls(fail) /= {})]
                    /\ usage_records' =
                         usage_records (+)
                           SetToBag({[usage_type |-> req[p].usage_type, date |-> today]})
  /\ UNCHANGED <<http, search, supabase, now, today, tier_overrides, daily_usage_stats,
                 monthly_usage_stats, documents>>

\* _update_daily_stats lines 850-859: today's date and the select of the row;
\* an exception is logged and swallowed
ReadDailyStats(p) ==
  /\ req[p].pc = "stats_read"
  /\ \/ req' = [req EXCEPT ![p].pc = AfterTracking(TRUE), ![p].logged_error = TRUE]
     \/ LET ids == DailyRowIds(today)
        IN req' = [req EXCEPT ![p].pc = "stats_write",
                     ![p].stats =
                        IF ids /= <<>>
                        THEN [id |-> ids[1], date |-> today,
                              row |-> [c \in Columns |-> daily_usage_stats[ids[1]][c]]]
                        ELSE [NoStats EXCEPT !.date = today]]
  /\ UNCHANGED <<http, search, supabase, now, today, tier_overrides, users, daily_usage_stats,
                 monthly_usage_stats, usage_records, documents>>

\* the row written back by .update(stats).eq("id", stats_id): every column of
\* the row that was read, with the counter of usage_type incremented
UpdatedRow(stats, usage_type) ==
  [c \in Columns \cup {"date"} |->
     IF c = "date" THEN stats.date ELSE Incremented(stats.row, usage_type)[c]]

\* _update_daily_stats lines 861-889: update of the row read, or insert of a
\* new row when none was found; an exception is logged and swallowed
WriteDailyStats(p) ==
  /\ req[p].pc = "stats_write"
  /\ \/ /\ req' = [req EXCEPT ![p].pc = AfterTracking(TRUE), ![p].stats = NoStats,
                                 ![p].logged_error = TRUE]
        /\ daily_usage_stats' = daily_usage_stats
     \/ /\ req' = [req EXCEPT ![p].pc = AfterTracking(TRUE), ![p].stats = NoStats]
        /\ daily_usage_stats' =
             IF req[p].stats.id /= 0
             THEN [daily_usage_stats EXCEPT ![req[p].stats.id] =
                     UpdatedRow(req[p].stats, req[p].usage_type)]
             ELSE Append(daily_usage_stats, NewStats(req[p].stats.date, req[p].usage_type))
  /\ UNCHANGED <<http, search, supabase, now, today, tier_overrides, users,
                 monthly_usage_stats, usage_records, documents>>
(* ------------------------- overrides and time ------------------------- *)
\* one hour passes
Tick ==
  /\ now < MaxTime
  /\ now' = now + 1
  /\ UNCHANGED <<http, search, supabase, today, tier_overrides, users, daily_usage_stats,
                 monthly_usage_stats, usage_records, documents, req>>

\* midnight: date.today() moves to the next day, and to the next month after
\* the last day of a month
NextDate(date) ==
  IF date.d < DaysPerMonth THEN [ym |-> date.ym, d |-> date.d + 1]
  ELSE [ym |-> date.ym + 1, d |-> 1]

\* the n-th date of the calendar
DayIndex(date) == (date.ym - 1) * DaysPerMonth + date.d

NextDay ==
  /\ NextDate(today) \in Dates
  /\ DayIndex(NextDate(today)) <= MaxDays
  /\ today' = NextDate(today)
  /\ UNCHANGED <<http, search, supabase, now, tier_overrides, users, daily_usage_stats,
                 monthly_usage_stats, usage_records, documents, req>>

\* expires_at of the row: the caller's value, or now + 24 hours when None
OverrideExpiry(expires_at) ==
  IF expires_at = None THEN now + OVERRIDE_HOURS ELSE expires_at

\* set_tier_override: inserts a row; without a store, or when the insert
\* raises, it returns False and the table is unchanged
SetTierOverride(override_tier, expires_at) ==
  /\ supabase
  /\ Len(tier_overrides) < MaxOverrides
  /\ tier_overrides' =
       Append(tier_overrides,
              [override_tier |-> override_tier,
               expires_at |-> OverrideExpiry(expires_at),
               created_at |-> now])
  /\ UNCHANGED <<http, search, supabase, now, today, users, daily_usage_stats,
                 monthly_usage_stats, usage_records, documents, req>>

\* the direct call get_user_tier(user_id), as made by the /documents/stats
\* handler; the caller keeps the tier and may call again later
GetUserTier(p) ==
  /\ req[p].pc \in {"idle", "resolved"}
  /\ \E fail \in SUBSET {"tier_overrides.select", "users.select", "users.insert"} :
       /\ req' = [req EXCEPT ![p] =
                    [Idle EXCEPT !.pc = "resolved", !.tier = get_user_tier(fail),
                                 !.failed = fail \cap TierCalls(fail),
                                 !.calls = TierCalls(fail)]]
       /\ users' = IF supabase THEN UsersAfterGetTier(fail) ELSE users
  /\ UNCHANGED <<http, search, supabase, now, today, tier_overrides, daily_usage_stats,
                 monthly_usage_stats, usage_records, documents>>

\* the caller returns the tier to its client
Return(p) ==
  /\ req[p].pc = "resolved"
  /\ req' = [req EXCEPT ![p] = Idle]
  /\ UNCHANGED <<http, search, supabase, now, today, tier_overrides, users, daily_usage_stats,
                 monthly_usage_stats, usage_records, documents>>

(* -------------------------- document search -------------------------- *)
\* a comparison of makes and models that tells upper from lower case
SameCase(str) == str

\* str.lower() on the makes and models of the modelled data
Lower(str) ==
  CASE str = "BMW" -> "bmw"
    [] str = "Audi" -> "audi"
    [] str = "M3" -> "m3"
    [] OTHER -> str

\* truth value of an Optional[str] and of an Optional[int] in a condition
TruthyStr(v) == v /= Absent /\ v /= ""
TruthyInt(v) == v /= None /\ v /= 0

\* abs(metadata["car_year"] - car_year)
Abs(n) == IF n < 0 THEN -n ELSE n

\* years may differ by this much
YEAR_TOLERANCE == 3

\* _matches_car_criteria(metadata, car_make, car_model, car_year)
_matches_car_criteria(metadata, car_make, car_model, car_year) ==
  IF ~(TruthyStr(car_make) \/ TruthyStr(car_model) \/ TruthyInt(car_year)) THEN TRUE
  ELSE IF TruthyStr(car_make) /\ TruthyStr(metadata.car_make)
          /\ Lower(metadata.car_make) /= Lower(car_make) THEN FALSE
  ELSE IF TruthyStr(car_model) /\ TruthyStr(metadata.car_model)
          /\ Lower(metadata.car_model) /= Lower(car_model) THEN FALSE
  ELSE IF TruthyInt(car_year) /\ TruthyInt(metadata.car_year)
          /\ Abs(metadata.car_year - car_year) > YEAR_TOLERANCE THEN FALSE
  ELSE TRUE

\* similarity_search_with_score(query, k): the k nearest chunks of the
\* collection, nearest first; the vector store rejects a k below 1
LookupRaises(collection, k) == collection.state = "raises" \/ k < 1
similarity_search_with_score(collection, k) ==
  SubSeq(collection.index, 1, IF k < Len(collection.index) THEN k ELSE Len(collection.index))

\* the for loop over the hits of one collection, from hit number rank on:
\* a hit that matches is appended with relevance_score = 1.0 - score
\* (in hundredths); DocumentMetadata(**doc.metadata) raising on a malformed
\* hit ends the loop, and the hits appended before it stay
RECURSIVE AppendHits(_, _, _, _, _)
AppendHits(results, origin, hits, rank, call) ==
  IF rank > Len(hits) THEN results
  ELSE IF ~_matches_car_criteria(hits[rank], call.car_make, call.car_model, call.car_year)
       THEN AppendHits(results, origin, hits, rank + 1, call)
  ELSE IF ~hits[rank].valid THEN results
  ELSE AppendHits(Append(results, [origin |-> origin, rank |-> rank,
                                   relevance_score |-> 100 - hits[rank].distance]),
                  origin, hits, rank + 1, call)

\* a search of one collection in which an exception of the lookup ends the
\* whole search with no results
AbortingSearch(results, origin, collection, call) ==
  IF collection.state = "absent" THEN results
  ELSE IF LookupRaises(collection, call.limit) THEN <<>>
  ELSE AppendHits(results, origin,
                  similarity_search_with_score(collection, call.limit), 1, call)

\* lines 527-547 and 549-568: the search of one collection; a path that does
\* not exist is skipped, an exception of the lookup is logged as a warning
SearchCollection(results, origin, collection, call) ==
  IF collection.state = "absent" THEN results
  ELSE IF LookupRaises(collection, call.limit) THEN results
  ELSE AppendHits(results, origin,
                  similarity_search_with_score(collection, call.limit), 1, call)

\* results left in the order in which they were appended
Unsorted(results) == results

\* results.sort(key=lambda x: x.relevance_score, reverse=True): the sort is
\* stable, so results of equal score keep their order
RECURSIVE InsertByScore(_, _)
InsertByScore(sorted, result) ==
  IF sorted = <<>> THEN <<result>>
  ELSE IF Head(sorted).relevance_score >= result.relevance_score
       THEN <<Head(sorted)>> \o InsertByScore(Tail(sorted), result)
       ELSE <<result>> \o sorted
RECURSIVE SortByRelevance(_)
SortByRelevance(results) ==
  IF results = <<>> THEN <<>>
  ELSE InsertByScore(SortByRelevance(SubSeq(results, 1, Len(results) - 1)),
                     results[Len(results)])

\* results[:limit]: a negative limit counts from the end of the list
Slice(results, limit) ==
  IF limit >= 0
  THEN SubSeq(results, 1, IF limit < Len(results) THEN limit ELSE Len(results))
  ELSE SubSeq(results, 1, IF Len(results) + limit > 0 THEN Len(results) + limit ELSE 0)

\* search_documents(query, user_id, car_make, car_model, car_year, limit)
search_documents(call) ==
  IF ~call.api_key THEN <<>>
  ELSE LET user_results == SearchCollection(<<>>, "user", call.user, call)
           results == SearchCollection(user_results, "system", call.system, call)
       IN Slice(SortByRelevance(results), call.limit)

\* a call of DocumentManager.search_documents returns
Search ==
  /\ search.pc = "searching"
  /\ search' = [search EXCEPT !.pc = "returned", !.results = search_documents(search)]
  /\ UNCHANGED <<http, supabase, now, today, tier_overrides, users, daily_usage_stats,
                 monthly_usage_stats, usage_records, documents, req>>

\* a call of DocumentManager._matches_car_criteria returns
Match ==
  /\ search.pc = "matching"
  /\ search' = [search EXCEPT !.pc = "matched",
                  !.kept = _matches_car_criteria(search.metadata, search.car_make,
                                                 search.car_model, search.car_year)]
  /\ UNCHANGED <<http, supabase, now, today, tier_overrides, users, daily_usage_stats,
                 monthly_usage_stats, usage_records, documents, req>>

(* ------------------------- document lifecycle ------------------------- *)
\* the keys of doc_metadata, written with every chunk by process_pdf_document
ChunkKeys ==
  {"document_id", "user_id", "title", "document_type", "car_make", "car_model",
   "car_year", "car_engine", "chunk_index", "tags", "is_public"}
\* the fields of DocumentMetadata that have no default
RequiredKeys == {"title", "filename", "document_type", "file_size"}
\* DocumentMetadata(**doc.metadata) validates iff every required field is given
MetadataAccepted(keys) == RequiredKeys \subseteq keys

\* the id of the document that is uploaded, and of another one indexed before
Uploaded == 1
Earlier == 2

\* the chunk process_pdf_document makes of the uploaded document; distance is
\* its distance from the query of the later search
UploadedChunk(call) ==
  [distance |-> call.distance, car_make |-> call.doc_make, car_model |-> Absent,
   car_year |-> None, valid |-> MetadataAccepted(ChunkKeys), document_id |-> Uploaded]

\* Chroma.from_documents adds the chunk to the collection, creating it when
\* it does not exist; the index ranks its chunks by distance
RECURSIVE Ranked(_, _)
Ranked(index, chunk) ==
  IF index = <<>> THEN <<chunk>>
  ELSE IF chunk.distance < Head(index).distance THEN <<chunk>> \o index
  ELSE <<Head(index)>> \o Ranked(Tail(index), chunk)
store_document_chunks(collection, chunk) ==
  [state |-> "ok", index |-> Ranked(collection.index, chunk)]

\* the calls of upload_document that may raise or report failure
UploadCalls ==
  {"documents.insert", "storage.upload", "documents.delete", "process_pdf_document",
   "store_document_chunks", "documents.update_ready", "documents.update_error"}

\* the status of the documents row after a cleanup call (the delete after a
\* failed storage upload, the update to ERROR after failed processing): the
\* call raises out of upload_document and leaves the row as it was
AfterCleanup(fail, call, done) == IF call \in fail THEN "processing" ELSE done

\* DocumentManager.upload_document: the documents row it leaves ("none" when
\* it created no row, "deleted" when it deleted it), whether the file is in
\* storage, whether the chunks are indexed, and whether it raised
upload_document(call, fail) ==
  LET gate == can_user_upload_document(call.file_size_mb, call.stored_mb, {})
      Out(row, stored, indexed, raised) ==
        [row |-> row, stored |-> stored, indexed |-> indexed, raised |-> raised]
      error == AfterCleanup(fail, "documents.update_error", "error")
  IN IF ~gate.allowed THEN Out("none", FALSE, FALSE, TRUE)
     ELSE IF "documents.insert" \in fail THEN Out("none", FALSE, FALSE, TRUE)
     ELSE IF "storage.upload" \in fail
          THEN Out(AfterCleanup(fail, "documents.delete", "deleted"), FALSE, FALSE, TRUE)
     ELSE IF "process_pdf_document" \in fail THEN Out(error, TRUE, FALSE, TRUE)
     ELSE IF "store_document_chunks" \in fail \/ ~call.api_key
          THEN Out(error, TRUE, FALSE, TRUE)
     ELSE IF "documents.update_ready" \in fail THEN Out(error, TRUE, TRUE, TRUE)
     ELSE Out("ready", TRUE, TRUE, FALSE)

\* the rows a documents query finds
RowExists(row) == row \in {"processing", "ready", "error"}

\* one call of DocumentManager.upload_document returns or raises
UploadDocument ==
  /\ search.pc = "uploading"
  /\ \E fail \in SUBSET UploadCalls :
       LET r == upload_document(search, fail)
       IN /\ search' = [search EXCEPT
                          !.pc = "uploaded", !.row = r.row, !.stored = r.stored,
                          !.raised = r.raised,
                          !.user = IF r.indexed
                                   THEN store_document_chunks(@, UploadedChunk(search))
                                   ELSE @]
          /\ documents' = IF RowExists(r.row) THEN documents + 1 ELSE documents
  /\ UNCHANGED <<http, supabase, now, today, tier_overrides, users, daily_usage_stats,
                 monthly_usage_stats, usage_records, req>>

\* what delete_document does to the vector store: nothing (line 506, TODO)
ChunksAfterDelete(collection, document_id) == collection

\* DocumentManager.delete_document: the value returned, the row and the file
delete_document(call, fail) ==
  IF ~supabase \/ "documents.select" \in fail \/ ~RowExists(call.row)
  THEN [deleted |-> FALSE, row |-> call.row, stored |-> call.stored]
  ELSE LET stored == call.stored /\ "storage.remove" \in fail
       IN IF "documents.delete" \in fail
          THEN [deleted |-> FALSE, row |-> call.row, stored |-> stored]
          ELSE [deleted |-> TRUE, row |-> "deleted", stored |-> stored]

\* one call of DocumentManager.delete_document for the uploaded document
DeleteDocument ==
  /\ search.pc = "uploaded"
  /\ \E fail \in SUBSET {"documents.select", "storage.remove", "documents.delete"} :
       LET r == delete_document(search, fail)
       IN /\ search' = [search EXCEPT
                          !.pc = "deleted", !.deleted = r.deleted, !.row = r.row,
                          !.stored = r.stored,
                          !.user = IF r.deleted THEN ChunksAfterDelete(@, Uploaded) ELSE @]
          /\ documents' = IF r.deleted THEN documents - 1 ELSE documents
  /\ UNCHANGED <<http, supabase, now, today, tier_overrides, users, daily_usage_stats,
                 monthly_usage_stats, usage_records, req>>

\* a call of search_documents made after the upload, or after the delete
SearchDocuments ==
  /\ search.pc \in {"uploaded", "deleted"}
  /\ search' = [search EXCEPT !.pc = "searched", !.results = search_documents(search)]
  /\ UNCHANGED <<http, supabase, now, today, tier_overrides, users, daily_usage_stats,
                 monthly_usage_stats, usage_records, documents, req>>

(* ------------------------------ API key ------------------------------- *)
\* a check that lets every key through
NoKeyCheck(key) == FALSE

\* check_api_key(request), for the x-api-key header of the request (Absent
\* when the header is missing): TRUE iff it raises HTTPException(401)
check_api_key(key) == TruthyStr(http.API_KEY) /\ key /= http.API_KEY

\* require_api_key: the wrapper finds the Request among the keyword arguments
\* of /ask, /stt and /tts, runs check_api_key and only then awaits the endpoint
RequireApiKey(p) ==
  /\ req[p].pc = "arrived"
  /\ req' = [req EXCEPT ![p].pc =
               IF check_api_key(http.x_api_key[p]) THEN "unauthorized" ELSE "idle"]
  /\ UNCHANGED <<http, search, supabase, now, today, tier_overrides, users,
                 daily_usage_stats, monthly_usage_stats, usage_records, documents>>

\* stt() lines 297-325 and tts() lines 363-400: validation and the call of the
\* Whisper or ElevenLabs API; an error becomes an HTTP error
Speech(p) ==
  /\ req[p].pc = "handling"
  /\ req[p].usage_type \in {STT_REQUEST, TTS_REQUEST}
  /\ \/ req' = [req EXCEPT ![p].pc = "failed"]
     \/ req' = [req EXCEPT ![p].pc = "tracking"]
  /\ UNCHANGED <<http, search, supabase, now, today, tier_overrides, users,
                 daily_usage_stats, monthly_usage_stats, usage_records, documents>>

(* --------------------- first access of a user ------------------------- *)
\* a users table that accepts any number of rows for one user_id
NoDuplicateKey == FALSE

\* users.user_id is the key that queries_user_id_fkey references, so the
\* insert of a second row for the user raises
DuplicateKey == users /= <<>>

\* get_user_tier lines 780-796: the override query and the user query, as
\* far as the return of a tier or the decision to create the user
LookupUser(p) ==
  /\ req[p].pc = "idle"
  /\ \E fail \in SUBSET {"tier_overrides.select", "users.select"} :
       LET calls == TierCalls(fail)
       IN /\ fail \subseteq calls
          /\ req' = [req EXCEPT ![p] =
                       [@ EXCEPT !.pc = IF "users.insert" \in calls /\ fail = {}
                                        THEN "creating" ELSE "resolved",
                                 !.tier = get_user_tier(fail),
                                 !.failed = fail,
                                 !.logged_error = fail /= {},
                                 !.calls = calls \ {"users.insert"}]]
  /\ UNCHANGED <<http, search, supabase, now, today, tier_overrides, users, daily_usage_stats,
                 monthly_usage_stats, usage_records, documents>>

\* get_user_tier lines 797-809: the insert of the users row; when it raises
\* the exception is logged, and FREE_TIER is returned either way
InsertUser(p) ==
  /\ req[p].pc = "creating"
  /\ \E raises \in BOOLEAN :
       IF raises \/ DuplicateKey
       THEN /\ users' = users
            /\ req' = [req EXCEPT ![p].pc = "resolved", ![p].tier = FREE_TIER,
                                  ![p].logged_error = TRUE,
                                  ![p].failed = IF raises THEN {"users.insert"} ELSE {},
                                  ![p].calls = @ \cup {"users.insert"}]
       ELSE /\ users' = Append(users, [tier |-> FREE_TIER])
            /\ req' = [req EXCEPT ![p].pc = "resolved", ![p].tier = FREE_TIER,
                                  ![p].calls = @ \cup {"users.insert"}]
  /\ UNCHANGED <<http, search, supabase, now, today, tier_overrides, daily_usage_stats,
                 monthly_usage_stats, usage_records, documents>>

\* log_query lines 738-750: the insert into queries, which violates
\* queries_user_id_fkey when the user has no users row; any other exception
\* is logged as a warning
LogQuery(p) ==
  /\ req[p].pc = "idle"
  /\ \/ req' = [req EXCEPT ![p].pc = "logged"]
     \/ /\ supabase
        /\ req' = [req EXCEPT ![p].pc = "logged", ![p].failed = {"queries.insert"}]
  /\ (supabase /\ users = <<>>) => req'[p].failed /= {}
  /\ UNCHANGED <<http, search, supabase, now, today, tier_overrides, users, daily_usage_stats,
                 monthly_usage_stats, usage_records, documents>>

\* log_query line 750: the exception names queries_user_id_fkey
LogQueryForeignKey(p) ==
  /\ req[p].pc = "idle"
  /\ supabase
  /\ users = <<>>
  /\ req' = [req EXCEPT ![p].pc = "log_creating"]
  /\ UNCHANGED <<http, search, supabase, now, today, tier_overrides, users, daily_usage_stats,
                 monthly_usage_stats, usage_records, documents>>

\* log_query lines 751-768: the insert of the users row and the second insert
\* into queries; an exception of either is logged as a warning
LogQueryCreateUser(p) ==
  /\ req[p].pc = "log_creating"
  /\ \E raises \in BOOLEAN :
       IF raises \/ DuplicateKey
       THEN /\ users' = users
            /\ req' = [req EXCEPT ![p].pc = "logged",
                                  ![p].failed = IF raises THEN {"users.insert"} ELSE {},
                                  ![p].calls = @ \cup {"users.insert"}]
       ELSE /\ users' = Append(users, [tier |-> FREE_TIER])
            /\ req' = [req EXCEPT ![p].pc = "logged",
                                  ![p].calls = @ \cup {"users.insert"}]
  /\ UNCHANGED <<http, search, supabase, now, today, tier_overrides, daily_usage_stats,
                 monthly_usage_stats, usage_records, documents>>

(* --------------------------- specifications --------------------------- *)
FirstDate == [ym |-> 1, d |-> 1]
\* the users table of the user: no row yet, or one row with a stored tier
UsersTables == {<<>>} \cup {<<[tier |-> t]>> : t \in UserTier}

\* tier resolution: overrides are set and expire while the tier is resolved
InitTier ==
  /\ supabase \in BOOLEAN
  /\ now = 0
  /\ today = FirstDate
  /\ tier_overrides = <<>>
  /\ users \in UsersTables
  /\ daily_usage_stats = <<>>
  /\ monthly_usage_stats = <<>>
  /\ usage_records = EmptyBag
  /\ documents = 0
  /\ req = [p \in Procs |-> Idle]
  /\ search = NoSearch
  /\ http = NoHttp

NextTier ==
  \/ Tick
  \/ \E t \in UserTier, e \in {now, now + 1, None} : SetTierOverride(t, e)
  \/ GetUserTier(1)
  \/ Return(1)

SpecTier == InitTier /\ [][NextTier]_vars
\* the evaluation of the limits: check_usage_limit is called once for each
\* usage type against the usage a user may have accumulated
LastDate == [ym |-> NumMonths, d |-> DaysPerMonth]
StatsRow(date, asks) ==
  [c \in Columns \cup {"date"} |->
     IF c = "date" THEN date ELSE IF c = "ask_queries" THEN asks ELSE 0]
\* the counts just below and at each ceiling of TIER_CONFIGS, and 0
AroundCeilings(ceilings) == {0} \cup UNION {{c - 1, c} : c \in ceilings \ {None, 0}}
AskCounts ==
  AroundCeilings({TIER_CONFIGS[t].max_daily_asks : t \in UserTier}
                 \cup {TIER_CONFIGS[t].max_monthly_asks : t \in UserTier})
DocumentCounts ==
  AroundCeilings({TIER_CONFIGS[t].max_document_uploads : t \in UserTier})
\* the daily rows of earlier days: one of another month, one of this month
EarlierRows == <<StatsRow([ym |-> 1, d |-> 1], 1), StatsRow([ym |-> NumMonths, d |-> 1], 1)>>
\* the rollup row of a month whose counters are the sums of the daily rows
RollupRow(ym, rows) ==
  LET RECURSIVE Sum(_, _)
      Sum(rs, c) == IF rs = <<>> THEN 0
                    ELSE (IF Head(rs).date.ym = ym THEN Head(rs)[c] ELSE 0) + Sum(Tail(rs), c)
  IN [c \in Columns \cup {"year_month"} |->
        IF c = "year_month" THEN ym ELSE Sum(rows, c)]

\* the usage a user may have accumulated
InitUsage ==
  /\ tier_overrides \in
       {<<>>, <<[override_tier |-> MASTER_TECH, expires_at |-> OVERRIDE_HOURS,
                 created_at |-> 0]>>}
  /\ users \in UsersTables
  /\ \E earlier \in {<<>>, EarlierRows},
        todays \in {<<>>} \cup {<<StatsRow(LastDate, asks)>> : asks \in AskCounts} :
       daily_usage_stats = earlier \o todays
  /\ monthly_usage_stats \in {<<>>, <<RollupRow(LastDate.ym, daily_usage_stats)>>}
  /\ documents \in DocumentCounts

\* without a store client none of the tables is ever read
InitNoStore ==
  /\ tier_overrides = <<>>
  /\ users = <<>>
  /\ daily_usage_stats = <<>>
  /\ monthly_usage_stats = <<>>
  /\ documents = 0

InitQuota ==
  /\ supabase \in BOOLEAN
  /\ now = 0
  /\ today = LastDate
  /\ IF supabase THEN InitUsage ELSE InitNoStore
  /\ usage_records = EmptyBag
  /\ req = [p \in Procs |-> Idle]
  /\ search = NoSearch
  /\ http = NoHttp

\* the usage of a user whose tier has changed during the month: the asks of
\* an earlier day of the month may have been made under any tier
InitEntitlement ==
  /\ supabase = TRUE
  /\ now = 0
  /\ today = LastDate
  /\ tier_overrides = <<>>
  /\ users \in UsersTables
  /\ \E earlier \in AskCounts, todays \in AskCounts :
       daily_usage_stats = <<StatsRow([ym |-> LastDate.ym, d |-> 1], earlier),
                             StatsRow(LastDate, todays)>>
  /\ monthly_usage_stats \in {<<>>, <<RollupRow(LastDate.ym, daily_usage_stats)>>}
  /\ documents \in DocumentCounts
  /\ usage_records = EmptyBag
  /\ req = [p \in Procs |-> Idle]
  /\ search = NoSearch
  /\ http = NoHttp

NextQuota == \E usage_type \in UsageType : CheckUsageLimit(1, usage_type)

SpecQuota == InitQuota /\ [][NextQuota]_vars

\* the gates: one call of can_user_upload_document or of check_vehicle_limit
\* for a user of any stored tier, with or without a live override
VehicleCounts == {0, 1, 2}
InitGates ==
  /\ supabase \in BOOLEAN
  /\ now = 0
  /\ today = FirstDate
  /\ IF supabase
     THEN /\ users \in UsersTables
          /\ tier_overrides \in
               {<<>>} \cup {<<[override_tier |-> t, expires_at |-> OVERRIDE_HOURS,
                               created_at |-> 0]>> : t \in UserTier}
     ELSE users = <<>> /\ tier_overrides = <<>>
  /\ daily_usage_stats = <<>>
  /\ monthly_usage_stats = <<>>
  /\ usage_records = EmptyBag
  /\ documents = 0
  /\ req = [p \in Procs |-> Idle]
  /\ http = NoHttp
  /\ search \in
       [pc : {"gating"}, file_size_mb : FileSizes, stored_mb : StoredSizes,
        current_vehicle_count : {0}, allowed : {FALSE}, reason : {OK},
        failed : {{}}, tier : {FREE_TIER}]
       \cup
       [pc : {"vehicles"}, file_size_mb : {0}, stored_mb : {0},
        current_vehicle_count : VehicleCounts, allowed : {FALSE}, reason : {OK},
        failed : {{}}, tier : {FREE_TIER}]

NextGates == CanUserUploadDocument \/ CheckVehicleLimit

SpecGates == InitGates /\ [][NextGates]_vars

SpecEntitlement == InitEntitlement /\ [][NextQuota]_vars

\* the request handlers: requests to /ask and /documents/upload arrive, run
\* concurrently and record their usage, while the date may change
\* the usage_records rows that n asks of one day have left
AskRecords(date, n) ==
  IF n = 0 THEN EmptyBag
  ELSE [row \in {[usage_type |-> ASK_QUERY, date |-> date]} |-> n]
\* asks already recorded at the start: none, or up to one below the Free ceiling
InitialAsks == 0..(TIER_CONFIGS[FREE_TIER].max_daily_asks - 1)
\* documents owned at the start: none, or one below the Weekend Warrior ceiling
InitialDocuments == {0, TIER_CONFIGS[WEEKEND_WARRIOR].max_document_uploads - 1}

Init ==
  /\ supabase \in BOOLEAN
  /\ now = 0
  /\ today = FirstDate
  /\ tier_overrides = <<>>
  /\ monthly_usage_stats = <<>>
  /\ IF supabase
     THEN /\ users \in UsersTables
          /\ \E n \in InitialAsks :
               /\ daily_usage_stats = IF n = 0 THEN <<>> ELSE <<StatsRow(FirstDate, n)>>
               /\ usage_records = AskRecords(FirstDate, n)
          /\ documents \in InitialDocuments
     ELSE /\ users = <<>>
          /\ daily_usage_stats = <<>>
          /\ usage_records = EmptyBag
          /\ documents = 0
  /\ req = [p \in Procs |-> Idle]
  /\ search = NoSearch
  /\ http = NoHttp

Next ==
  \/ \E p \in Procs, route \in Routes : RouteCheck(p, route)
  \/ \E p \in Procs : Answer(p)
  \/ \E p \in Procs : Upload(p)
  \/ \E p \in Procs : TrackUsage(p)
  \/ \E p \in Procs : ReadDailyStats(p)
  \/ \E p \in Procs : WriteDailyStats(p)
  \/ NextDay

Spec == Init /\ [][Next]_vars

\* the chunk of a document indexed before, with the metadata a system
\* import writes
EarlierChunk ==
  [distance |-> 10, car_make |-> "BMW", car_model |-> Absent, car_year |-> None,
   valid |-> TRUE, document_id |-> Earlier]

\* document lifecycle: an upload, then a delete or a search, then a search,
\* for a user with a users row of any tier
InitDocs ==
  /\ supabase = TRUE
  /\ now = 0
  /\ today = FirstDate
  /\ tier_overrides = <<>>
  /\ users \in {<<[tier |-> t]>> : t \in UserTier}
  /\ daily_usage_stats = <<>>
  /\ monthly_usage_stats = <<>>
  /\ usage_records = EmptyBag
  /\ documents = 0
  /\ req = [p \in Procs |-> Idle]
  /\ http = NoHttp
  /\ search \in
       [pc : {"uploading"}, file_size_mb : {1}, stored_mb : {0, MAX_STORAGE_PAID_MB},
        distance : {5, 10}, doc_make : {"BMW", "Audi"},
        row : {"none"}, stored : {FALSE}, raised : {FALSE}, deleted : {FALSE},
        api_key : BOOLEAN, limit : {1, 5},
        car_make : {Absent, "bmw"}, car_model : {Absent}, car_year : {None},
        user : {[state |-> "absent", index |-> <<>>],
                [state |-> "ok", index |-> <<EarlierChunk>>]},
        system : {[state |-> "absent", index |-> <<>>]}, results : {<<>>}]

NextDocs == UploadDocument \/ DeleteDocument \/ SearchDocuments

SpecDocs == InitDocs /\ [][NextDocs]_vars

\* requests to /ask, /stt and /tts that arrive with or without an x-api-key
\* header while API_KEY is unset, empty or set
ApiKeys == {Absent, "", "k"}
Headers == {Absent, "k", "x"}
AuthRoutes == {"/ask", "/stt", "/tts"}
InitAuth ==
  /\ supabase = TRUE
  /\ now = 0
  /\ today = FirstDate
  /\ tier_overrides = <<>>
  /\ users = <<>>
  /\ daily_usage_stats = <<>>
  /\ monthly_usage_stats = <<>>
  /\ usage_records = EmptyBag
  /\ documents = 0
  /\ req = [p \in Procs |-> [Idle EXCEPT !.pc = "arrived"]]
  /\ search = NoSearch
  /\ http \in [API_KEY : ApiKeys, x_api_key : [Procs -> Headers]]

NextAuth ==
  \/ \E p \in Procs : RequireApiKey(p)
  \/ \E p \in Procs, route \in AuthRoutes : RouteCheck(p, route)
  \/ \E p \in Procs : Answer(p)
  \/ \E p \in Procs : Speech(p)
  \/ \E p \in Procs : TrackUsage(p)
  \/ \E p \in Procs : ReadDailyStats(p)
  \/ \E p \in Procs : WriteDailyStats(p)

SpecAuth == InitAuth /\ [][NextAuth]_vars

\* first access: get_user_tier and log_query calls for the same user overlap
InitUsers ==
  /\ supabase \in BOOLEAN
  /\ now = 0
  /\ today = FirstDate
  /\ tier_overrides = <<>>
  /\ users \in UsersTables
  /\ daily_usage_stats = <<>>
  /\ monthly_usage_stats = <<>>
  /\ usage_records = EmptyBag
  /\ documents = 0
  /\ req = [p \in Procs |-> Idle]
  /\ search = NoSearch
  /\ http = NoHttp

NextUsers ==
  \/ \E p \in Procs : LookupUser(p)
  \/ \E p \in Procs : InsertUser(p)
  \/ \E p \in Procs : LogQuery(p)
  \/ \E p \in Procs : LogQueryForeignKey(p)
  \/ \E p \in Procs : LogQueryCreateUser(p)

SpecUsers == InitUsers /\ [][NextUsers]_vars

\* the request handlers for a user whose current month has a precomputed
\* monthly_usage_stats row, equal to the sum of the month's daily rows
InitRollup ==
  /\ supabase = TRUE
  /\ now = 0
  /\ today = FirstDate
  /\ tier_overrides = <<>>
  /\ users \in UsersTables
  /\ \E n \in InitialAsks :
       /\ daily_usage_stats = IF n = 0 THEN <<>> ELSE <<StatsRow(FirstDate, n)>>
       /\ usage_records = AskRecords(FirstDate, n)
  /\ monthly_usage_stats = <<RollupRow(FirstDate.ym, daily_usage_stats)>>
  /\ documents \in InitialDocuments
  /\ req = [p \in Procs |-> Idle]
  /\ search = NoSearch
  /\ http = NoHttp

SpecRollup == InitRollup /\ [][Next]_vars

\* the tables as they are while the document search is exercised
NoRequests ==
  /\ supabase = TRUE
  /\ now = 0
  /\ today = FirstDate
  /\ tier_overrides = <<>>
  /\ users = <<>>
  /\ daily_usage_stats = <<>>
  /\ monthly_usage_stats = <<>>
  /\ usage_records = EmptyBag
  /\ documents = 0
  /\ req = [p \in Procs |-> Idle]
  /\ http = NoHttp

\* distances of the chunks from the query, in hundredths; the index reports
\* a distance that is not bounded by 1
Distances == {5, 10, 150}
\* a chunk whose metadata DocumentMetadata(**doc.metadata) rejects
Malformed ==
  [distance |-> 5, car_make |-> "BMW", car_model |-> Absent, car_year |-> None,
   valid |-> FALSE]
\* the chunks a collection may hold
Chunks ==
  {[distance |-> d, car_make |-> m, car_model |-> Absent, car_year |-> None,
    valid |-> TRUE] : d \in Distances, m \in {"BMW", "Audi"}} \cup {Malformed}
\* the chunks of a collection as the vector store ranks them: nearest first
Indexes ==
  {ix \in UNION {[1..n -> Chunks] : n \in 0..MaxHits} :
     \A i \in 1..(Len(ix) - 1) : ix[i].distance <= ix[i + 1].distance}
\* a collection: its path does not exist, its lookup raises, or it answers
Collections ==
  {[state |-> "absent", index |-> <<>>], [state |-> "raises", index |-> <<>>]}
  \cup {[state |-> "ok", index |-> ix] : ix \in Indexes}
\* values of the limit argument, an int the request does not constrain
Limits == {-1, 0, 1, MaxHits, 5}

\* document search: one call of search_documents on any two collections
InitSearch ==
  /\ NoRequests
  /\ search \in [pc : {"searching"}, api_key : BOOLEAN, limit : Limits,
                 car_make : {Absent, "bmw"}, car_model : {Absent}, car_year : {None},
                 user : Collections, system : Collections, results : {<<>>}]

SpecSearch == InitSearch /\ [][Search]_vars

\* the metadata of a chunk and the vehicle filter of a request
Metadatas ==
  [car_make : {Absent, "", "BMW", "Audi"}, car_model : {Absent, "M3", "X5"},
   car_year : {None, 2012, 2018, 2019, 2020}]

\* vehicle filter: one call of _matches_car_criteria on any filter and chunk
InitMatch ==
  /\ NoRequests
  /\ search \in [pc : {"matching"}, metadata : Metadatas,
                 car_make : {Absent, "", "BMW", "bmw"}, car_model : {Absent, "M3", "m3"},
                 car_year : {None, 0, 2015}, kept : {FALSE}]

SpecMatch == InitMatch /\ [][Match]_vars

(* ------------------------ claims: tier resolution --------------------- *)
\* a call of get_user_tier by p that reached the store and saw no exception
ResolvedBy(p) ==
  /\ supabase
  /\ req[p].pc = "idle"
  /\ req'[p].pc = "resolved"
  /\ req'[p].failed = {}

RowsOf(table) == {table[i] : i \in 1..Len(table)}
\* overrides that expire after now, before now, and exactly now
LiveOverrides == {r \in RowsOf(tier_overrides) : r.expires_at > now}
ExpiredOverrides == {r \in RowsOf(tier_overrides) : r.expires_at < now}
ExpiringNow == {r \in RowsOf(tier_overrides) : r.expires_at = now}
\* the overrides of a set whose created_at is the latest of the set
Latest(rows) == {r \in rows : \A q \in rows : q.created_at <= r.created_at}
\* the tier stored for the user; a user without a row gets the default tier
StoredTier == IF users /= <<>> THEN users[1].tier ELSE FREE_TIER

\* C6: get_user_tier returns the tier of an override with the latest
\* created_at among the overrides that have not expired, whatever expired
\* overrides exist and however recent they are, and the stored tier when no
\* override is live.  Stated for the instants at which no override expires
\* exactly now; that instant is the subject of C7.
C6_LatestLiveOverrideWins ==
  [][\A p \in Procs :
       (ResolvedBy(p) /\ ExpiringNow = {}) =>
          IF LiveOverrides /= {}
          THEN \E r \in Latest(LiveOverrides) : req'[p].tier = r.override_tier
          ELSE req'[p].tier = StoredTier]_vars

\* C6 witness: a resolution made while the most recently created override
\* had expired and an older override of another tier was still live returned
\* the older override's tier, which also differs from the stored tier
C6_Witness ==
  \E p \in Procs :
     /\ supabase
     /\ req[p].pc = "resolved"
     /\ req[p].failed = {}
     /\ ExpiringNow = {}
     /\ \E old \in LiveOverrides, new \in ExpiredOverrides :
          /\ new.created_at > old.created_at
          /\ new.override_tier /= old.override_tier
          /\ old.override_tier /= StoredTier
          /\ LiveOverrides = {old}
          /\ req[p].tier = old.override_tier

\* C7: an override is live only while expires_at > now: at the instant now
\* equals its expires_at get_user_tier does not use it, and returns the tier
\* of the latest override that is still live, or the stored tier
C7_ExpiryIsStrict ==
  [][\A p \in Procs :
       ResolvedBy(p) =>
          IF LiveOverrides /= {}
          THEN \E r \in Latest(LiveOverrides) : req'[p].tier = r.override_tier
          ELSE req'[p].tier = StoredTier]_vars
(* ---------------------- claims: check_usage_limit --------------------- *)
\* p holds the result of a check_usage_limit call
Checked(p) == req[p].pc = "checked"
\* today's ask count, the month's ask count and the limits of the tier that
\* the call of p resolved
TodayAsks ==
  IF DailyRowIds(today) /= <<>> THEN daily_usage_stats[DailyRowIds(today)[1]].ask_queries ELSE 0
MonthAsks == SumColumn(MonthRowIds(today.ym), "ask_queries")
LimitsOf(p) == TIER_CONFIGS[req[p].tier]
\* the reads of the counts that the ceilings of C2 are compared with
CountReads == {"daily_usage_stats.select", "documents.count"}

\* the daily ask ceiling, or the lifetime upload ceiling, of p's tier is set
\* and already used up
DailyOrUploadCeilingUsed(p) ==
  \/ /\ req[p].usage_type = ASK_QUERY
     /\ LimitsOf(p).max_daily_asks /= None
     /\ TodayAsks >= LimitsOf(p).max_daily_asks
  \/ /\ req[p].usage_type = DOCUMENT_UPLOAD
     /\ LimitsOf(p).max_document_uploads /= None
     /\ documents >= LimitsOf(p).max_document_uploads

\* p's tier has no ceiling at all for the usage type of the call
NoCeiling(p) ==
  /\ req[p].usage_type = ASK_QUERY =>
       LimitsOf(p).max_daily_asks = None /\ LimitsOf(p).max_monthly_asks = None
  /\ req[p].usage_type = DOCUMENT_UPLOAD => LimitsOf(p).max_document_uploads = None

C3_MonthlyCeilingDenies ==
  \A p \in Procs :
     (/\ Checked(p) /\ supabase /\ req[p].failed = {}
      /\ req[p].usage_type = ASK_QUERY
      /\ LimitsOf(p).max_monthly_asks /= None
      /\ MonthAsks >= LimitsOf(p).max_monthly_asks)
     => ~req[p].allowed

\* the feature flag of the tier for the usage type is disabled
FeatureDisabled(limits, usage_type) ==
  \/ usage_type = DOCUMENT_UPLOAD /\ ~limits.document_upload_enabled
  \/ usage_type = TTS_REQUEST /\ ~limits.tts_enabled
  \/ usage_type = STT_REQUEST /\ ~limits.stt_enabled

\* C4 as stated: a call for an action whose feature flag is disabled in the
\* resolved tier is denied, whatever the counts and whatever the store does
C4_DisabledFeatureAlwaysDenies ==
  \A p \in Procs :
     (Checked(p) /\ supabase /\ FeatureDisabled(LimitsOf(p), req[p].usage_type))
     => ~req[p].allowed

\* C4 amended: with a store configured, such a call is denied whatever the
\* counts are and whichever other reads fail, provided the daily-stats read
\* of the evaluation does not raise
C4_DisabledFeatureDenies ==
  \A p \in Procs :
     (/\ Checked(p) /\ supabase
      /\ FeatureDisabled(LimitsOf(p), req[p].usage_type)
      /\ "daily_usage_stats.select" \notin req[p].failed)
     => ~req[p].allowed

\* C4 witness: a Free-tier upload was denied for a user who owns documents
\* and has asked nothing today
C4_Witness ==
  /\ supabase
  /\ Checked(1)
  /\ req[1].tier = FREE_TIER
  /\ req[1].usage_type = DOCUMENT_UPLOAD
  /\ ~TIER_CONFIGS[FREE_TIER].document_upload_enabled
  /\ documents > 0
  /\ TodayAsks = 0
  /\ ~req[1].allowed

\* C5: a call during which a store read failed returns allowed = true.
\* Stated for the actions whose feature the resolved tier has enabled, for a
\* failure of the tier lookup alone and for a user whose stored tier is a
\* paid tier
C5_StoreErrorAllows ==
  \A p \in Procs :
     (/\ Checked(p)
      /\ StoredTier /= FREE_TIER
      /\ req[p].failed /= {}
      /\ req[p].failed \subseteq {"tier_overrides.select", "users.select"}
      /\ ~FeatureDisabled(LimitsOf(p), req[p].usage_type))
     => req[p].allowed

\* the used/limit pair of the ceiling that applies to p's call
UsedLimit(p) ==
  IF req[p].usage_type = DOCUMENT_UPLOAD
  THEN <<documents, LimitsOf(p).max_document_uploads>>
  ELSE IF req[p].tier = FREE_TIER
       THEN <<TodayAsks, LimitsOf(p).max_daily_asks>>
       ELSE <<MonthAsks, LimitsOf(p).max_monthly_asks>>
\* the words that name the ceiling that applies to p's call
CeilingName(p) ==
  IF req[p].usage_type = DOCUMENT_UPLOAD THEN "Document upload limit reached"
  ELSE IF req[p].tier = FREE_TIER THEN "Daily limit reached"
  ELSE "Monthly limit reached"

\* C10 as stated: every denial names the ceiling hit and carries its
\* used/limit pair
C10_DenialCarriesPair ==
  \A p \in Procs :
     (Checked(p) /\ ~req[p].allowed) =>
        /\ req[p].reason.text = CeilingName(p)
        /\ req[p].reason.pair = UsedLimit(p)

\* C10 amended: every denial names the ceiling hit; the denials of an ask and
\* the Weekend Warrior upload denial carry the used/limit pair, the Free-tier
\* upload denial carries no numbers; a Free-tier user with 3 asks today is
\* denied with the pair 3/3
C10_DenialNamesCeiling ==
  \A p \in Procs :
     /\ (Checked(p) /\ ~req[p].allowed) =>
           /\ req[p].reason.text = CeilingName(p)
           /\ req[p].reason.pair =
                IF req[p].usage_type = DOCUMENT_UPLOAD /\ req[p].tier = FREE_TIER
                THEN <<>> ELSE UsedLimit(p)
     /\ (/\ Checked(p) /\ supabase /\ req[p].failed = {}
         /\ req[p].tier = FREE_TIER /\ req[p].usage_type = ASK_QUERY
         /\ TodayAsks = 3) =>
           /\ ~req[p].allowed
           /\ req[p].reason.pair = <<3, 3>>

\* C10 witness: a Free-tier user with 3 asks recorded today was denied 3/3
C10_Witness ==
  /\ Checked(1)
  /\ req[1].tier = FREE_TIER
  /\ req[1].usage_type = ASK_QUERY
  /\ TodayAsks = 3
  /\ ~req[1].allowed
  /\ req[1].reason = [text |-> "Daily limit reached", pair |-> <<3, 3>>]
(* ----------------------- claims: request handlers --------------------- *)
\* the handler of p has returned or raised
Returned(p) == req[p].pc \in {"done", "denied", "failed"}
\* no store call raised, and so nothing was logged, while serving any request
NoErrorLogged == \A p \in Procs : ~req[p].logged_error
\* the number of usage_records rows of a usage type and date
RecordsOf(usage_type, date) ==
  CopiesIn([usage_type |-> usage_type, date |-> date], usage_records)
\* the stored counter of a date: the row that the select returns first
StoredCount(column, date) ==
  IF DailyRowIds(date) /= <<>> THEN daily_usage_stats[DailyRowIds(date)[1]][column] ELSE 0

\* C1: once all track_usage(user, ASK_QUERY) calls of one day have returned,
\* none having met a store error, the stored ask_queries counter of the day
\* counts every one of them, as the usage_records rows do
C1_NoLostUpdate ==
  (/\ \A p \in Procs : Returned(p)
   /\ NoErrorLogged
   /\ today = FirstDate)
  => StoredCount("ask_queries", FirstDate) = RecordsOf(ASK_QUERY, FirstDate)

\* C8: for a user who is on the Free tier throughout, the asks answered and
\* recorded for one day never exceed max_daily_asks, whichever way the /ask
\* requests overlap (no store call having failed)
C8_QuotaNeverExceeded ==
  (/\ supabase
   /\ tier_overrides = <<>>
   /\ StoredTier = FREE_TIER
   /\ NoErrorLogged)
  => \A date \in Dates :
        RecordsOf(ASK_QUERY, date) <= TIER_CONFIGS[FREE_TIER].max_daily_asks

\* C9: a request that check_usage_limit denies ends at once with the denial:
\* it never reaches the gated action or track_usage, and every step that
\* changes usage_records, daily_usage_stats or documents is taken by a request
\* that the check allowed
C9_DeniedDoesNothing ==
  [][\A p \in Procs :
       /\ (req[p].pc = "idle" /\ req'[p].pc \notin {"idle", "resolved", "checked"}
             /\ ~req'[p].allowed) => req'[p].pc = "denied"
       /\ req[p].pc = "denied" => req'[p] = req[p]
       /\ req'[p].pc \in {"handling", "tracking", "stats_read", "stats_write"}
             => req'[p].allowed
       /\ (\/ usage_records' /= usage_records
           \/ daily_usage_stats' /= daily_usage_stats
           \/ documents' /= documents)
          => \E q \in Procs : req[q].allowed /\ req[q].pc /= "denied" /\ req'[q] /= req[q]
    ]_vars

\* C9 witness: one request was denied and ended, while another was allowed,
\* answered and recorded
C9_Witness ==
  \E p, q \in Procs :
     /\ req[p].pc = "denied" /\ ~req[p].allowed
     /\ req[q].pc = "done" /\ req[q].allowed /\ ~req[q].logged_error
     /\ usage_records /= EmptyBag
(* ------------------- claims: user creation and failures --------------- *)
\* C11: a get_user_tier call that meets no store error, for a user with no
\* override rows and no users row, returns FREE_TIER and leaves exactly one
\* users row, of tier free_tier; a call made when a users row exists creates
\* no further row and leaves the table as it was
C11_UnknownUserIsCreatedOnce ==
  [][\A p \in Procs :
       ResolvedBy(p) =>
          /\ (tier_overrides = <<>> /\ users = <<>>) =>
                /\ req'[p].tier = FREE_TIER
                /\ users' = <<[tier |-> FREE_TIER]>>
          /\ users /= <<>> => users' = users]_vars

\* C11 witness: a call found no override and no users row, inserted the row
\* and returned FREE_TIER
C11_Witness ==
  \E p \in Procs :
     /\ supabase
     /\ req[p].pc = "resolved"
     /\ req[p].failed = {}
     /\ "users.insert" \in req[p].calls
     /\ tier_overrides = <<>>
     /\ users = <<[tier |-> FREE_TIER]>>
     /\ req[p].tier = FREE_TIER

\* C13: a get_user_tier call made without a store, or during which the
\* override query, the user query or the user insert raises, returns to its
\* caller, and the tier it returns is FREE_TIER
C13_StoreFailureGivesDefaultTier ==
  [][\A p \in Procs :
       (/\ req[p].pc \in {"idle", "resolved"}
        /\ req'[p] /= req[p]
        /\ req'[p].pc /= "idle"
        /\ (~supabase \/ req'[p].failed /= {}))
       => (req'[p].pc = "resolved" /\ req'[p].tier = FREE_TIER)]_vars

\* C13 witness: the user query raised for a user whose stored tier is
\* master_tech, and FREE_TIER was returned
C13_Witness ==
  \E p \in Procs :
     /\ supabase
     /\ req[p].pc = "resolved"
     /\ req[p].failed = {"users.select"}
     /\ StoredTier = MASTER_TECH
     /\ req[p].tier = FREE_TIER
NoneInFlight == \A p \in Procs : req[p].pc = "idle" \/ Returned(p)

C15_TrackingFailureIsNotSurfaced ==
  [][\A p \in Procs :
       req[p].pc \in {"tracking", "stats_read", "stats_write"} =>
          req'[p].pc \in {"tracking", "stats_read", "stats_write", "done"}]_vars

\* C15 witness: an /ask request was answered, its usage_records insert
\* raised, so that the table is still empty, and the request returned its
\* answer
C15_Witness ==
  \E p \in Procs :
     /\ supabase
     /\ req[p].pc = "done"
     /\ req[p].usage_type = ASK_QUERY
     /\ req[p].logged_error
     /\ usage_records = EmptyBag
(* ----------------------- claims: document search ---------------------- *)
\* the call of search_documents has returned; its results, as a set
Searched == search.pc = "returned"
ResultSet == {search.results[i] : i \in 1..Len(search.results)}
\* the collection a result comes from
CollectionOf(origin) == IF origin = "user" THEN search.user ELSE search.system
\* the chunk named by a result exists in its collection, matches the vehicle
\* filter, and the result carries its score
IsHit(result) ==
  LET collection == CollectionOf(result.origin)
  IN /\ collection.state = "ok"
     /\ result.rank \in 1..Len(collection.index)
     /\ result.rank <= search.limit
     /\ result.relevance_score = 100 - collection.index[result.rank].distance
     /\ _matches_car_criteria(collection.index[result.rank], search.car_make,
                              search.car_model, search.car_year)
\* the matching hits of the lookups of both collections
Pool ==
  {result \in [origin : {"user", "system"}, rank : 1..MaxHits,
               relevance_score : {100 - d : d \in Distances}] : IsHit(result)}
\* a collection that answers and holds no malformed chunk
Healthy(collection) ==
  /\ collection.state = "ok"
  /\ \A i \in 1..Len(collection.index) : collection.index[i].valid
\* input order: user-collection hits first, and within a collection by rank
InputOrder(a, b) ==
  \/ a.origin = "user" /\ b.origin = "system"
  \/ a.origin = b.origin /\ a.rank < b.rank

\* C16: the list search_documents returns holds matching hits of the two
\* collections in descending order of relevance_score, hits of equal score in
\* input order (user before system, then by rank); it leaves out no hit that
\* scores higher than one it holds, and holds all the pooled hits when they
\* are no more than limit; one private hit scored 0.9 and one system hit
\* scored 0.95 with limit 5 come back as [0.95, 0.9]
C16_ResultsRankedStably ==
  Searched =>
    LET R == search.results
    IN /\ \A i \in 1..Len(R) : IsHit(R[i])
       /\ \A i, j \in 1..Len(R) :
             i < j => /\ R[i].relevance_score >= R[j].relevance_score
                      /\ R[i].relevance_score = R[j].relevance_score
                            => InputOrder(R[i], R[j])
       /\ (search.api_key /\ search.limit >= 1
             /\ Healthy(search.user) /\ Healthy(search.system)) =>
             /\ \A x \in Pool \ ResultSet :
                   \A i \in 1..Len(R) : R[i].relevance_score >= x.relevance_score
             /\ Cardinality(Pool) <= search.limit => ResultSet = Pool
       /\ (/\ search.api_key /\ search.limit = 5
           /\ Healthy(search.user) /\ Healthy(search.system)
           /\ Len(search.user.index) = 1 /\ search.user.index[1].distance = 10
           /\ Len(search.system.index) = 1 /\ search.system.index[1].distance = 5
           /\ Cardinality(Pool) = 2) =>
             R = <<[origin |-> "system", rank |-> 1, relevance_score |-> 95],
                   [origin |-> "user", rank |-> 1, relevance_score |-> 90]>>

\* C16 witness: one user hit and two system hits, the user hit tied with a
\* system hit, came back ranked: the system hit of the higher score first,
\* then the tied user hit before the tied system hit
C16_Witness ==
  /\ Searched
  /\ Len(search.results) = 3
  /\ search.results[1].origin = "system"
  /\ search.results[2].origin = "user"
  /\ search.results[2].relevance_score = search.results[3].relevance_score
  /\ search.results[3].origin = "system"
  /\ search.results[1].relevance_score > search.results[2].relevance_score

\* C17: for every limit the request accepts, the list search_documents
\* returns has at most limit elements
C17_AtMostLimitResults ==
  Searched => Len(search.results) <= search.limit

\* a collection whose path does not exist or whose lookup raises
Broken(collection) == collection.state \in {"absent", "raises"}
\* the other collection
Other(origin) == IF origin = "user" THEN "system" ELSE "user"

\* C19: search_documents returns whatever a collection lookup does; a
\* collection that does not exist, or whose lookup raises, contributes no
\* result, and the list returned then holds the ranked hits of the other
\* collection
C19_BrokenCollectionIsSkipped ==
  Searched =>
    \A origin \in {"user", "system"} :
       Broken(CollectionOf(origin)) =>
          /\ \A i \in 1..Len(search.results) : search.results[i].origin /= origin
          /\ (search.api_key /\ search.limit >= 1 /\ Healthy(CollectionOf(Other(origin))))
                => /\ ResultSet = Pool
                   /\ Len(search.results) = Cardinality(Pool)

\* C19 witness: the lookup of the system collection raised and the two hits
\* of the user collection were returned
C19_Witness ==
  /\ Searched
  /\ search.system.state = "raises"
  /\ Healthy(search.user)
  /\ Len(search.results) = 2
  /\ \A i \in 1..2 : search.results[i].origin = "user"
(* ----------------------- claims: vehicle filter ----------------------- *)
\* the call of _matches_car_criteria has returned
Matched == search.pc = "matched"
\* a field that is not None
GivenStr(v) == v /= Absent
GivenInt(v) == v /= None
\* a field that is not None and neither an empty string nor zero
FilledStr(v) == GivenStr(v) /\ v /= ""
FilledInt(v) == GivenInt(v) /\ v /= 0
\* two makes or models that differ in case at most
EqualIgnoringCase(a, b) ==
  \/ a = b
  \/ {a, b} \in {{"BMW", "bmw"}, {"Audi", "audi"}, {"M3", "m3"}, {"X5", "x5"}}
\* two years no more than 3 apart
YearsClose(a, b) == a - b \in -3..3
\* the filter {make BMW, year 2015} of the scenario
ScenarioFilter ==
  search.car_make = "BMW" /\ search.car_model = Absent /\ search.car_year = 2015

\* C18 as stated: a hit is kept exactly when every field that is not None in
\* both the filter and the metadata matches
C18_KeptIffGivenFieldsMatch ==
  Matched =>
    (search.kept <=>
       /\ (GivenStr(search.car_make) /\ GivenStr(search.metadata.car_make))
             => EqualIgnoringCase(search.car_make, search.metadata.car_make)
       /\ (GivenStr(search.car_model) /\ GivenStr(search.metadata.car_model))
             => EqualIgnoringCase(search.car_model, search.metadata.car_model)
       /\ (GivenInt(search.car_year) /\ GivenInt(search.metadata.car_year))
             => YearsClose(search.car_year, search.metadata.car_year))

\* C18: _matches_car_criteria keeps a hit exactly when every field among
\* make, model and year that is filled (not None, not the empty string, not
\* 0) both in the filter and in the metadata matches, make and model without
\* regard to case and year within 3; a field not filled on either side never
\* excludes the hit; filter {BMW, 2015} keeps {BMW, 2012}, excludes {BMW, 2020}
C18_KeptIffFilledFieldsMatch ==
  Matched =>
    /\ search.kept <=>
         /\ (FilledStr(search.car_make) /\ FilledStr(search.metadata.car_make))
               => EqualIgnoringCase(search.car_make, search.metadata.car_make)
         /\ (FilledStr(search.car_model) /\ FilledStr(search.metadata.car_model))
               => EqualIgnoringCase(search.car_model, search.metadata.car_model)
         /\ (FilledInt(search.car_year) /\ FilledInt(search.metadata.car_year))
               => YearsClose(search.car_year, search.metadata.car_year)
    /\ (ScenarioFilter /\ search.metadata.car_make = "BMW"
          /\ search.metadata.car_year = 2012) => search.kept
    /\ (ScenarioFilter /\ search.metadata.car_make = "BMW"
          /\ search.metadata.car_year = 2020) => ~search.kept

\* C18 witness: a filter in lower case with a year kept a chunk whose make
\* and model are in upper case and whose year is 3 earlier
C18_Witness ==
  /\ Matched
  /\ search.kept
  /\ search.car_make = "bmw" /\ search.metadata.car_make = "BMW"
  /\ search.car_model = "m3" /\ search.metadata.car_model = "M3"
  /\ search.car_year = 2015 /\ search.metadata.car_year = 2012
(* ------------------------ claims: entitlement ------------------------- *)
\* the tiers from the lowest to the highest
TierOrder == <<FREE_TIER, WEEKEND_WARRIOR, MASTER_TECH>>
TierRank(tier) == CHOOSE i \in 1..3 : TierOrder[i] = tier

C21_UnsetLimitMeansUnlimited ==
  /\ (/\ search.pc = "gated" /\ supabase /\ search.failed = {}
      /\ users /= <<>> /\ users[1].tier = MASTER_TECH
      /\ TIER_CONFIGS[MASTER_TECH].max_storage_mb = None) => search.allowed
  /\ (/\ search.pc = "counted" /\ search.failed = {}
      /\ TIER_CONFIGS[search.tier].max_vehicles = None) => search.allowed
(* -------------------------- claims: API key --------------------------- *)
\* API_KEY is configured and the request carries no x-api-key header or
\* another value
WrongKey(p) == http.API_KEY \notin {Absent, ""} /\ http.x_api_key[p] /= http.API_KEY

NoTrackingUnderWay ==
  \A p \in Procs : req[p].pc \notin {"tracking", "stats_read", "stats_write"}

\* C23: every track_usage call that has returned appended one usage_records
\* row and raised the matching daily counter by one, so that whenever no
\* call is under way, store failures included, the daily_usage_stats counter
\* of every day and kind equals the number of usage_records rows of that day
\* and kind
C23_CountersMatchRecords ==
  NoTrackingUnderWay =>
     \A date \in Dates, usage_type \in UsageType :
        StoredCount(Column(usage_type), date) = RecordsOf(usage_type, date)
\* C24: no counter of a daily_usage_stats row ever decreases, also when
\* track_usage calls of different usage types for the same day overlap, each
\* writing back the whole row it read
C24_CountersNeverDecrease ==
  [][\A i \in 1..Len(daily_usage_stats), c \in Columns :
        /\ i <= Len(daily_usage_stats')
        /\ daily_usage_stats'[i][c] >= daily_usage_stats[i][c]]_vars
\* C25: in every reachable state daily_usage_stats holds at most one row for
\* each date, also when two track_usage calls are the first of the day and
\* both find no row before either inserts
C25_OneDailyRowPerDate ==
  \A date \in Dates : Len(DailyRowIds(date)) <= 1
(* ------------------------ claims: upload gates ------------------------ *)
\* C27: the two gates of a document upload resolve the same tier: whenever
\* check_usage_limit(user, DOCUMENT_UPLOAD) admits a user because a live
\* override gives a paid tier, can_user_upload_document does not refuse the
\* user for want of a paid plan
C27_GatesResolveSameTier ==
  (/\ search.pc = "gated" /\ supabase /\ search.failed = {}
   /\ ActiveOverrides /= <<>>
   /\ get_user_tier({}) /= FREE_TIER
   /\ check_usage_limit(DOCUMENT_UPLOAD, {}).allowed)
  => search.reason.text /= "Document uploads require a paid plan"

(* -------------------- claims: scores and round trip ------------------- *)
\* C26: every result search_documents returns has its relevance_score within
\* [0, 1] (0..100 hundredths), whatever distance the index returns
C26_ScoreWithinUnitInterval ==
  Searched =>
     \A i \in 1..Len(search.results) : search.results[i].relevance_score \in 0..100
\* the ranks at which the user collection holds chunks of the uploaded document
RanksOfUploaded ==
  {i \in 1..Len(search.user.index) : search.user.index[i].document_id = Uploaded}
\* a result that is a chunk of the uploaded document
FromUploaded(result) == result.origin = "user" /\ result.rank \in RanksOfUploaded

\* C28: index round trip: a chunk written by process_pdf_document and
\* store_document_chunks is returned by search_documents when the index
\* ranks it within the limit and it passes the vehicle filter; the metadata
\* stored with the chunk holds every field DocumentMetadata needs
C28_IndexedChunkIsFound ==
  (/\ search.pc = "searched" /\ search.row = "ready" /\ search.api_key
   /\ \E i \in RanksOfUploaded :
         /\ i <= search.limit
         /\ _matches_car_criteria(search.user.index[i], search.car_make,
                                  search.car_model, search.car_year))
  => /\ MetadataAccepted(ChunkKeys)
     /\ \E j \in 1..Len(search.results) : FromUploaded(search.results[j])

(* --------------------- claims: document lifecycle --------------------- *)
\* C29: after delete_document has returned True, the chunks of the document
\* have left the index and no later search_documents call returns one
C29_DeletedDocumentLeavesIndex ==
  (search.pc \in {"deleted", "searched"} /\ search.deleted) =>
     /\ RanksOfUploaded = {}
     /\ \A j \in 1..Len(search.results) : ~FromUploaded(search.results[j])

\* C30: once upload_document has returned or raised, the documents row it
\* created is not left in status PROCESSING: it is READY (file stored, chunks
\* indexed, metadata returned), or ERROR (file kept in storage, exception
\* raised), or deleted (storage upload failed, exception raised), also when
\* a store call of the cleanup fails
C30_NoRowLeftProcessing ==
  search.pc = "uploaded" =>
     /\ search.row /= "processing"
     /\ search.row = "ready" =>
           search.stored /\ RanksOfUploaded /= {} /\ ~search.raised
     /\ search.row = "error" => search.stored /\ search.raised
     /\ search.row = "deleted" => ~search.stored /\ search.raised
====
